---------------------------- MODULE Spec2Model ----------------------------
(***************************************************************************)
(* A model of JDPDF: the DTC segment extractor (src/src/dtc_parser.py),    *)
(* the outline hierarchy builder (src/src/pdf_outline_processor.py) and    *)
(* create_pdf_outline (src/main.py).                                       *)
(*                                                                         *)
(* A Python str is a sequence of characters, each a one-character string.  *)
(* The modelled alphabet is letters, digits, space, newline, the           *)
(* punctuation ". - : /" and the bullet glyph; of these only "." is a      *)
(* regular-expression metacharacter, so a text of the alphabet compiled as *)
(* a pattern matches itself with "." as a wildcard.  Styled markup is a    *)
(* sequence of characters and tags; a tag is one element of the sequence.  *)
(***************************************************************************)
EXTENDS Integers, Sequences, FiniteSets, TLC

\* The bullet glyph U+2022 (one character of a Python str).
Bullet == "U+2022"
NL == "\n"

Digit == {"0", "1", "2", "3", "4", "5", "6", "7", "8", "9"}
Upper == {"A", "B", "C", "D", "E", "F", "G", "H", "I", "J", "K", "L", "M",
          "N", "O", "P", "Q", "R", "S", "T", "U", "V", "W", "X", "Y", "Z"}
Lower == {"a", "b", "c", "d", "e", "f", "g", "h", "i", "j", "k", "l", "m",
          "n", "o", "p", "q", "r", "s", "t", "u", "v", "w", "x", "y", "z"}
\* \w and [A-Z0-9] of the patterns
WordChar == Upper \cup Lower \cup Digit \cup {"_"}
AlnumUpper == Upper \cup Digit
\* what str.strip() removes
Whitespace == {" ", NL}

\* Tags of the styled markup PyMuPDF renders: paragraph, bold, span.
OpenTags == {"<p>", "<b>", "<span>"}
CloseTags == {"</p>", "</b>", "</span>"}
Tags == OpenTags \cup CloseTags

\* Optional[...]: None or a value.
None == [some |-> FALSE, val |-> <<>>]
Some(v) == [some |-> TRUE, val |-> v]
\* Python truthiness of an Optional[str] / Optional[list]: `if x`
Truthy(o) == o.some /\ o.val # <<>>

\* s[a:b] and s[a:] of Python, for 0 <= a (0-based, b exclusive)
Slice(s, a, b) == SubSeq(s, a + 1, b)
SliceFrom(s, a) == SubSeq(s, a + 1, Len(s))
StartsWith(s, p) == Len(s) >= Len(p) /\ SubSeq(s, 1, Len(p)) = p

RECURSIVE LStrip(_)
LStrip(s) == IF s # <<>> /\ Head(s) \in Whitespace THEN LStrip(Tail(s)) ELSE s
RECURSIVE RStrip(_)
RStrip(s) == IF s # <<>> /\ s[Len(s)] \in Whitespace THEN RStrip(SubSeq(s, 1, Len(s) - 1)) ELSE s
\* str.strip()
Strip(s) == RStrip(LStrip(s))
\* str.replace('\n', ' ')
ReplaceNewlines(s) == [j \in 1..Len(s) |-> IF s[j] = NL THEN " " ELSE s[j]]

(***************************************************************************)
(* Regular expressions of the re module.  A pattern is a sequence of       *)
(* elements; an element is a character class (negated or not) with a       *)
(* greedy repetition lo..hi, hi = -1 for no upper limit.                   *)
(***************************************************************************)
Rep(cls, lo, hi) == [cls |-> cls, neg |-> FALSE, lo |-> lo, hi |-> hi]
Lit(c) == Rep({c}, 1, 1)
\* "." : any character but a newline
AnyChar == [cls |-> {NL}, neg |-> TRUE, lo |-> 1, hi |-> 1]
\* (\n|.)* : any characters
AnyText == [cls |-> {}, neg |-> TRUE, lo |-> 0, hi |-> -1]

\* A tag is several characters of markup beginning "<": no element of a
\* pattern of the program (a code token, whose characters after and before
\* the separator are [A-Z0-9]) matches into or across it.
ClassHas(el, c) == c \notin Tags /\ (IF el.neg THEN c \notin el.cls ELSE c \in el.cls)

\* how many characters from position i (1-based) the element can take
RECURSIVE RunLen(_, _, _, _)
RunLen(el, s, i, n) ==
    IF (el.hi # -1 /\ n >= el.hi) \/ i + n > Len(s) THEN n
    ELSE IF ClassHas(el, s[i + n]) THEN RunLen(el, s, i, n + 1) ELSE n

\* The backtracking match of pat[k..] at position i: the position after the
\* match the engine finds first (longest repetitions first), 0 for no match.
RECURSIVE ReMatchFrom(_, _, _, _)
RECURSIVE ReTry(_, _, _, _, _)
ReTry(pat, k, s, i, n) ==
    LET r == ReMatchFrom(pat, k + 1, s, i + n)
    IN  IF r # 0 THEN r
        ELSE IF n > pat[k].lo THEN ReTry(pat, k, s, i, n - 1) ELSE 0
ReMatchFrom(pat, k, s, i) ==
    IF k > Len(pat) THEN i
    ELSE LET run == RunLen(pat[k], s, i, 0)
         IN  IF run < pat[k].lo THEN 0 ELSE ReTry(pat, k, s, i, run)

NoMatch == [found |-> FALSE, start |-> 0, end |-> 0]
\* re.match at offset 0: the match object (0-based start, end as in Python)
ReMatch(pat, s) ==
    LET e == ReMatchFrom(pat, 1, s, 1)
    IN  IF e = 0 THEN NoMatch ELSE [found |-> TRUE, start |-> 0, end |-> e - 1]
\* re.search: the leftmost match
ReSearch(pat, s) ==
    LET starts == {i \in 1..(Len(s) + 1) : ReMatchFrom(pat, 1, s, i) # 0}
    IN  IF starts = {} THEN NoMatch
        ELSE LET i == CHOOSE m \in starts : \A o \in starts : m <= o
             IN  [found |-> TRUE, start |-> i - 1, end |-> ReMatchFrom(pat, 1, s, i) - 1]

\* A text of the alphabet compiled as a pattern: re.search(target_dtc, html),
\* and the solution names interpolated into the f-string patterns.
CompileText(t) == [j \in 1..Len(t) |-> IF t[j] = "." THEN AnyChar ELSE Lit(t[j])]

\* DTC_PATTERN, group 1: \w{2,3} ?[A-Z0-9]{6,7}[-\.][A-Z0-9]{1,2}
\* (the trailing .* is outside the group and matches anything)
DTC_PATTERN ==
    << Rep(WordChar, 2, 3), Rep({" "}, 0, 1), Rep(AlnumUpper, 6, 7),
       Rep({"-", "."}, 1, 1), Rep(AlnumUpper, 1, 2) >>


\* re.escape(label) with every escaped space replaced by [ \n]
\* (_handle_newlines): None for an empty label.
REGEX_OPTIONAL_NEWLINE == Rep({" ", NL}, 1, 1)
handle_newlines(label) ==
    IF label = <<>> THEN None
    ELSE Some([j \in 1..Len(label) |->
                  IF label[j] = " " THEN REGEX_OPTIONAL_NEWLINE ELSE Lit(label[j])])

(***************************************************************************)
(* BeautifulSoup(html, 'html.parser').find_all('span'): the span elements  *)
(* in document order, each with its text and the name of its parent.  An   *)
(* end tag with no open element of its name is ignored, an end tag closes  *)
(* every element opened after the one it names, and elements still open at *)
(* the end of the markup are closed there.                                 *)
(***************************************************************************)
TagName(t) ==
    CASE t \in {"<p>", "</p>"} -> "p"
      [] t \in {"<b>", "</b>"} -> "b"
      [] OTHER -> "span"

\* the topmost open element named n (0 when none is open)
LastOpen(stack, n) ==
    LET at == {j \in 1..Len(stack) : stack[j].name = n}
    IN  IF at = {} THEN 0 ELSE CHOOSE j \in at : \A o \in at : o <= j

\* the parser's state: the open elements (a span with its place in `found`)
\* and the spans found so far
ParserStart == [stack |-> <<>>, found |-> <<>>]

\* a character of text goes into the text of every span open on the stack
RECURSIVE AddText(_, _, _)
AddText(found, stack, a) ==
    IF stack = <<>> THEN found
    ELSE IF Head(stack).id = 0 THEN AddText(found, Tail(stack), a)
    ELSE AddText([found EXCEPT ![Head(stack).id].text = Append(@, a)], Tail(stack), a)

\* the parser reads one element of the markup: a start tag, an end tag or a
\* character of text (which every open span takes into its text)
ParseOne(st, a) ==
    IF a \in OpenTags THEN
        LET parent == IF st.stack = <<>> THEN "[document]" ELSE st.stack[Len(st.stack)].name
        IN  IF a = "<span>"
            THEN [stack |-> Append(st.stack, [name |-> "span", id |-> Len(st.found) + 1]),
                  found |-> Append(st.found, [text |-> <<>>, parent |-> parent])]
            ELSE [st EXCEPT !.stack = Append(@, [name |-> TagName(a), id |-> 0])]
    ELSE IF a \in CloseTags THEN
        LET j == LastOpen(st.stack, TagName(a))
        IN  IF j = 0 THEN st ELSE [st EXCEPT !.stack = SubSeq(@, 1, j - 1)]
    ELSE [st EXCEPT !.found = AddText(@, st.stack, a)]

\* the parser over html[lo..hi], left to right; the markup is read in two
\* halves, the left one evaluated before the right one starts from its state
RECURSIVE ParseRange(_, _, _, _)
ParseRange(st, html, lo, hi) ==
    IF lo > hi THEN st
    ELSE IF lo = hi THEN ParseOne(st, html[lo])
    ELSE LET mid == (lo + hi) \div 2
             left == ParseRange(st, html, lo, mid)
         IN  IF Len(left.found) >= 0 THEN ParseRange(left, html, mid + 1, hi) ELSE left

find_all_spans(html) == ParseRange(ParserStart, html, 1, Len(html)).found

(***************************************************************************)
(* DtcParser                                                               *)
(***************************************************************************)
\* range(start, stop)
Range(start, stop) ==
    [k \in 1..(IF stop > start THEN stop - start ELSE 0) |-> start + k - 1]

\* NEWLINE.join(pages)
RECURSIVE JoinLines(_)
JoinLines(pages) ==
    IF pages = <<>> THEN <<>>
    ELSE IF Len(pages) = 1 THEN pages[1]
    ELSE pages[1] \o <<NL>> \o JoinLines(Tail(pages))

RECURSIVE Concat(_)
Concat(lists) == IF lists = <<>> THEN <<>> ELSE Head(lists) \o Concat(Tail(lists))

\* The pages range(start, stop) loads before load_page raises: page_idx is
\* 0-based and load_page raises ValueError for a page not in the document.
LoadablePrefix(doc, idxs) ==
    LET bad == {k \in 1..Len(idxs) : idxs[k] >= Len(doc)}
    IN  IF bad = {} THEN idxs
        ELSE SubSeq(idxs, 1, (CHOOSE k \in bad : \A o \in bad : k <= o) - 1)

\* the page loop with its stop one short: `stop += 1`
WidenedStopByOne(stop) == stop + 1

\* the stop of the page loop: `stop += 2`
WidenedStop(stop) == stop + 2

\* _get_pages_html
get_pages_html(doc, start, stop) ==
    LET idxs == Range(start, WidenedStop(stop))
        read == LoadablePrefix(doc, idxs)
    IN  [raised |-> read # idxs,
         pages  |-> read,
         val    |-> JoinLines([k \in 1..Len(read) |-> doc[read[k] + 1].html])]

\* page_blocks_txt[:-1]
DropLast(s) == IF s = <<>> THEN <<>> ELSE SubSeq(s, 1, Len(s) - 1)

\* _get_pages_blocks
get_pages_blocks(doc, start, stop) ==
    LET idxs == Range(start, WidenedStop(stop))
        read == LoadablePrefix(doc, idxs)
    IN  [raised |-> read # idxs,
         pages  |-> read,
         val    |-> Concat([k \in 1..Len(read) |-> DropLast(doc[read[k] + 1].blocks)])]

\* dtc_template.search(label).group(1): raises AttributeError when the
\* search finds nothing (None has no group)
CodeOf(label) ==
    LET m == ReSearch(DTC_PATTERN, label)
    IN  [raised |-> ~m.found, val |-> IF m.found THEN Slice(label, m.start, m.end) ELSE <<>>]

Returned(v) == [raised |-> FALSE, val |-> v]
Raised == [raised |-> TRUE, val |-> None]

\* the slice with the test of the two points left out
RegionBetweenUnchecked(html, start_index, end_index) ==
    Some(Slice(html, start_index, end_index))

\* the slice taken when both matches are found: html[start_index:end_index]
\* only for end_index > start_index
RegionBetween(html, start_index, end_index) ==
    IF end_index > start_index THEN Some(Slice(html, start_index, end_index)) ELSE None

\* _extract_html_between_dtc_codes
extract_html_between_dtc_codes(html, target, next) ==
    IF target = <<>> THEN Returned(None)
    ELSE IF CodeOf(target).raised THEN Raised
    ELSE LET code == CodeOf(target).val
             match_start == ReSearch(CompileText(code), html)
         IN  IF ~Truthy(next)
             THEN IF ~match_start.found THEN Returned(None)
                  ELSE Returned(Some(SliceFrom(html, match_start.end)))
             ELSE IF CodeOf(next.val).raised THEN Raised
             ELSE LET match_end == ReSearch(CompileText(CodeOf(next.val).val), html)
                  IN  IF ~match_start.found \/ ~match_end.found THEN Returned(None)
                      ELSE Returned(RegionBetween(html, match_start.end, match_end.start))


\* the loop body with a bullet that does not reset an open streak
SpanBodyNoReset(st, span) ==
    IF span.text = <<Bullet>> /\ span.parent = "b" /\ ~st.in_streak
    THEN [st EXCEPT !.in_streak = TRUE, !.current_text = <<>>]
    ELSE IF span.parent = "b" /\ st.in_streak
    THEN [st EXCEPT !.current_text = @ \o span.text \o <<" ">>]
    ELSE IF st.in_streak
    THEN LET name == Strip(SliceFrom(st.current_text, 1))
         IN  [in_streak |-> FALSE, current_text |-> name,
              extracted_text_list |-> Append(st.extracted_text_list, name)]
    ELSE st

\* One iteration of the loop of _solution_names_from_html over a span; the
\* loop's state is in_streak, current_text and extracted_text_list.
SpanBody(st, span) ==
    IF span.text = <<Bullet>> /\ span.parent = "b"
    THEN [st EXCEPT !.in_streak = TRUE, !.current_text = <<>>]
    ELSE IF span.parent = "b" /\ st.in_streak
    THEN [st EXCEPT !.current_text = @ \o span.text \o <<" ">>]
    ELSE IF st.in_streak
    THEN LET name == Strip(SliceFrom(st.current_text, 1))
         IN  [in_streak |-> FALSE, current_text |-> name,
              extracted_text_list |-> Append(st.extracted_text_list, name)]
    ELSE st

\* the loop body with the capture tested before the target pattern, so that
\* a block matching the target pattern again is captured like any other
BlockBodyKeepTarget(st, block, target, next) ==
    IF st.matching_started
    THEN IF ~next.some
         THEN [st EXCEPT !.result = Append(@, block)]
         ELSE IF ReSearch(next.val, block).found
         THEN [st EXCEPT !.matching_started = FALSE, !.broke = TRUE]
         ELSE [st EXCEPT !.result = Append(@, block)]
    ELSE IF ReSearch(target, block).found
    THEN [st EXCEPT !.matching_started = TRUE]
    ELSE st

\* One iteration of the loop of _filter_dtc_blocks over a block; the loop's
\* state is matching_started, result and whether the loop has left by break.
\* target and next are the patterns _handle_newlines made (next: None when
\* no next label is given).
BlockBody(st, block, target, next) ==
    IF ReSearch(target, block).found
    THEN [st EXCEPT !.matching_started = TRUE]
    ELSE IF st.matching_started
    THEN IF ~next.some
         THEN [st EXCEPT !.result = Append(@, block)]
         ELSE IF ReSearch(next.val, block).found
         THEN [st EXCEPT !.matching_started = FALSE, !.broke = TRUE]
         ELSE [st EXCEPT !.result = Append(@, block)]
    ELSE st

\* fr"\d+ ?{first_solname}"
FirstNamePattern(first_solname) ==
    <<Rep(Digit, 1, -1), Rep({" "}, 0, 1)>> \o CompileText(first_solname)

\* dtc_blocks[match_index:], [] when no block matches the first name
BlocksFromFirstName(dtc_blocks, first_solname) ==
    LET pat == FirstNamePattern(first_solname)
        hits == {i \in 1..Len(dtc_blocks) :
                     ReSearch(pat, ReplaceNewlines(dtc_blocks[i])).found}
    IN  IF hits = {} THEN <<>>
        ELSE SubSeq(dtc_blocks, CHOOSE i \in hits : \A o \in hits : i <= o,
                    Len(dtc_blocks))

\* the function without its first test: with no name every block is kept
remove_blocks_keep_all(dtc_blocks, solution_names) ==
    IF solution_names = <<>> THEN dtc_blocks
    ELSE BlocksFromFirstName(dtc_blocks, solution_names[1])

\* _remove_blocks_before_solutions
remove_blocks_before_solutions(dtc_blocks, solution_names) ==
    IF solution_names = <<>> THEN <<>>
    ELSE BlocksFromFirstName(dtc_blocks, solution_names[1])

\* re.sub(r'^\d+\.', '', solution)
StripListMarker(s) ==
    LET m == ReMatch(<<Rep(Digit, 1, -1), Lit(".")>>, s)
    IN  IF m.found THEN SliceFrom(s, m.end) ELSE s

OK_MARK == <<"O", "K", ":">>
NOT_OK_MARK == <<"N", "O", "T", " ", "O", "K", ":">>
\* re.sub(r'(OK:|NOT OK:)(\n|.)*', '', solution): the text is cut at the
\* leftmost place where one of the two markers starts
CutAtOk(s) ==
    LET at == {i \in 1..Len(s) : \/ StartsWith(SubSeq(s, i, Len(s)), OK_MARK)
                                 \/ StartsWith(SubSeq(s, i, Len(s)), NOT_OK_MARK)}
    IN  IF at = {} THEN s
        ELSE SubSeq(s, 1, (CHOOSE i \in at : \A o \in at : i <= o) - 1)

\* re.sub(fr'^\d* ?({"|".join(solution_names)})', '', solution): the engine
\* tries the longest run of digits first, then the space before no space,
\* then the names in their order.
StripNamePrefix(s, solution_names) ==
    LET dmax == RunLen(Rep(Digit, 0, -1), s, 1, 0)
        ok(d, sp, j) ==
            /\ (sp = 1 => (d + 1 <= Len(s) /\ s[d + 1] = " "))
            /\ ReMatchFrom(CompileText(solution_names[j]), 1, s, d + sp + 1) # 0
        tries == {t \in (0..dmax) \X {0, 1} \X (1..Len(solution_names)) :
                      ok(t[1], t[2], t[3])}
        before(a, b) ==
            \/ a[1] > b[1]
            \/ a[1] = b[1] /\ a[2] > b[2]
            \/ a[1] = b[1] /\ a[2] = b[2] /\ a[3] <= b[3]
    IN  IF tries = {} THEN s
        ELSE LET t == CHOOSE a \in tries : \A b \in tries : before(a, b)
             IN  SliceFrom(s, t[1] + t[2] + Len(solution_names[t[3]]))

\* re.sub(' •$', '', solution)
StripTrailingBullet(s) ==
    IF Len(s) >= 2 /\ SubSeq(s, Len(s) - 1, Len(s)) = <<" ", Bullet>>
    THEN SubSeq(s, 1, Len(s) - 2) ELSE s

\* the cleaning steps of one block, in the order of the code
CleanBlock(block, solution_names) ==
    StripTrailingBullet(
        Strip(StripNamePrefix(CutAtOk(StripListMarker(ReplaceNewlines(block))),
                              solution_names)))

OK_PREFIX == <<"O", "K">>
DIAGNOSTICS == <<"D", "i", "a", "g", "n", "o", "s", "t", "i", "c", "s">>
\* r' -\d{2}-\d{2}[A-Z]{3}\d{2}-\d+/\d+'
PAGE_MARK ==
    << Lit(" "), Lit("-"), Rep(Digit, 2, 2), Lit("-"), Rep(Digit, 2, 2),
       Rep(Upper, 3, 3), Rep(Digit, 2, 2), Lit("-"), Rep(Digit, 1, -1),
       Lit("/"), Rep(Digit, 1, -1) >>

\* the noise filter: the first two tests read the block as it was captured,
\* the last two the cleaned text
IsNoise(block, solution) ==
    LET is_ok_block == StartsWith(block, OK_PREFIX) \/ StartsWith(block, NOT_OK_MARK)
        is_dot == StartsWith(block, <<Bullet>>)
        is_diagnostics == solution = DIAGNOSTICS
        is_page_mark == ReSearch(PAGE_MARK, solution).found
    IN  is_ok_block \/ is_dot \/ is_diagnostics \/ is_page_mark

RECURSIVE CleanAll(_, _)
CleanAll(solution_blocks, solution_names) ==
    IF solution_blocks = <<>> THEN <<>>
    ELSE LET block == Head(solution_blocks)
             solution == CleanBlock(block, solution_names)
             rest == CleanAll(Tail(solution_blocks), solution_names)
         IN  IF IsNoise(block, solution) THEN rest ELSE <<solution>> \o rest

\* _clean_solutions_from_blocks
clean_solutions_from_blocks(dtc_blocks, solution_names) ==
    CleanAll(remove_blocks_before_solutions(dtc_blocks, solution_names), solution_names)


(***************************************************************************)
(* The inputs of parse_dtc: labels, and the pages of a document, each with *)
(* its styled markup (get_text('html')) and its text blocks                *)
(* (get_text('blocks'), the last one the footer).                          *)
(***************************************************************************)
CodeA == <<"A", "B", " ", "0", "0", "0", "0", "0", "1", ".", "1">>
CodeB == <<"A", "B", " ", "0", "0", "0", "0", "0", "2", ".", "1">>
\* the text CodeA matches as a pattern without being equal to it
CodeALike == <<"A", "B", " ", "0", "0", "0", "0", "0", "1", "x", "1">>
LabelA == CodeA \o <<" ", "F">>
\* the same code under another description
LabelA2 == CodeA \o <<" ", "G">>
LabelB == CodeB \o <<" ", "G">>
\* a label with no code in it, and the empty label
LabelNoCode == <<"F", "a", "u", "l", "t">>
LabelEmpty == <<>>
\* LabelA as the block extractor wraps it over two lines
LabelAWrapped == <<"A", "B", NL>> \o SubSeq(LabelA, 4, Len(LabelA))

TargetLabels == {LabelA, LabelA2, LabelNoCode, LabelEmpty}
NextLabels == {None, Some(LabelB), Some(LabelNoCode), Some(LabelEmpty)}

Para(x) == <<"<p>">> \o x \o <<"</p>">>
Bold(x) == <<"<b>">> \o x \o <<"</b>">>
Span(t) == <<"<span>">> \o t \o <<"</span>">>
NameRx == <<"R", "x">>
NameRy == <<"R", "y">>
Footer == <<"7">>

\* the heading of code A, one solution name (bullet, ordinal, name in bold)
\* closed by a plain bullet, and its body
PageA ==
    [html   |-> Para(Bold(Span(LabelA)))
                \o Para(Bold(Span(<<Bullet>>)) \o Bold(Span(<<"1">>)) \o Bold(Span(NameRx))
                        \o Span(<<Bullet>>))
                \o Para(Span(<<"d", "o">>)),
     blocks |-> << LabelA \o <<NL>>,
                   <<"1", " ">> \o NameRx \o <<NL, "d", "o", " ", Bullet>>,
                   Footer >>]
\* the heading of code B
PageB ==
    [html   |-> Para(Bold(Span(LabelB))) \o Para(Span(<<"g">>)),
     blocks |-> << LabelB \o <<NL>>, <<"g">>, Footer >>]
\* a continuation page: plain and bold text outside any streak, a streak
\* started twice and left open, and the layout noise of the manuals
PageNoise ==
    [html   |-> Para(Span(<<"z">>)) \o Para(Bold(Span(<<"Q">>)))
                \o Para(Bold(Span(<<Bullet>>)) \o Bold(Span(<<"9">>)))
                \o Para(Bold(Span(<<Bullet>>)) \o Bold(Span(<<"2">>)) \o Bold(Span(NameRy))),
     blocks |-> << <<"1", ".", "O", "K", " ", "g", "o">>,
                   <<"O", "K", ":", " ", "y">>,
                   <<Bullet, " ", "d">>,
                   DIAGNOSTICS \o <<NL>>,
                   <<"2", NameRy[1], NameRy[2], " ", "u", " ", "N", "O", "T", " ", "O", "K", ":", "z">>,
                   <<"x", " ", "-", "1", "9", "-", "0", "1", "J", "A", "N", "0", "5", "-", "1", "/", "2">>,
                   Footer >>]
\* code A again, as running text that matches its pattern and as a heading
\* wrapped over two lines in the block view
PageALike ==
    [html   |-> Para(Span(CodeALike)) \o Para(Span(<<"t">>)),
     blocks |-> << LabelAWrapped, <<"1", ".", "t">>, Footer >>]
PageEmpty == [html |-> <<>>, blocks |-> <<>>]

PageKinds == {PageA, PageB, PageNoise, PageALike, PageEmpty}

\* bounds of the model: the pages of a document, the first page asked for,
\* and how far past it the nominal end page lies
DocLen == 2
MaxStartPage == 1
MaxSectionPages == 0

Documents == [1..DocLen -> PageKinds]

VARIABLES
    \* parse_dtc: the arguments and the document
    pdf_document, startpage, endpage, target_dtc, next_dtc,
    \* where the call is, and the exception that ended it
    pc, exc,
    \* Pass A
    html, html_pages, dtc_html, spans, span_idx, names_state, solution_names,
    \* Pass B
    blocks, block_pages, block_idx, filter_state, dtc_blocks,
    \* the returned dictionary
    ret,
    \* the outline: the document's outline nodes in pre-order with their
    \* depth, PdfReader.outline (the nested lists PyPDF2 makes of them), the
    \* result of extract_outline, and the result of create_pdf_outline
    outline_nodes, outlines, titles_df, sections

dtc_vars == << pdf_document, startpage, endpage, target_dtc, next_dtc, pc, exc,
               html, html_pages, dtc_html, spans, span_idx, names_state, solution_names,
               blocks, block_pages, block_idx, filter_state, dtc_blocks, ret >>
dtc_vars_but_pc == << pdf_document, startpage, endpage, target_dtc, next_dtc,
                      html, html_pages, dtc_html, spans, span_idx, names_state,
                      solution_names, blocks, block_pages, block_idx, filter_state,
                      dtc_blocks, ret >>
outline_vars == << outline_nodes, outlines, titles_df, sections >>
vars == << dtc_vars, outline_vars >>

NamesStart == [in_streak |-> FALSE, current_text |-> <<>>, extracted_text_list |-> <<>>]
FilterStart == [matching_started |-> FALSE, result |-> <<>>, broke |-> FALSE]

\* the values the outline variables keep while parse_dtc runs
OutlineIdle == outline_nodes = <<>> /\ outlines = <<>> /\ titles_df = None /\ sections = None

InitDtc ==
    /\ pdf_document \in Documents
    /\ startpage \in 0..MaxStartPage
    /\ endpage \in startpage..(startpage + MaxSectionPages)
    /\ target_dtc \in TargetLabels
    /\ next_dtc \in NextLabels
    /\ pc = "get_pages_html"
    /\ exc = "none"
    /\ html = <<>> /\ html_pages = <<>> /\ dtc_html = None
    /\ spans = <<>> /\ span_idx = 0 /\ names_state = NamesStart /\ solution_names = <<>>
    /\ blocks = <<>> /\ block_pages = <<>> /\ block_idx = 0
    /\ filter_state = FilterStart /\ dtc_blocks = <<>>
    /\ ret = None

Init == InitDtc /\ OutlineIdle

\* parse_dtc, line 223: html = self._get_pages_html(startpage, endpage)
GetPagesHtml ==
    /\ pc = "get_pages_html"
    /\ LET r == get_pages_html(pdf_document, startpage, endpage)
       IN  /\ html_pages' = r.pages
           /\ html' = IF r.raised THEN html ELSE r.val
           /\ pc' = IF r.raised THEN "raised" ELSE "extract_html"
           /\ exc' = IF r.raised THEN "ValueError" ELSE exc
    /\ UNCHANGED << pdf_document, startpage, endpage, target_dtc, next_dtc,
                    dtc_html, spans, span_idx, names_state, solution_names,
                    blocks, block_pages, block_idx, filter_state, dtc_blocks, ret,
                    outline_vars >>

\* parse_dtc, line 224: dtc_html = self._extract_html_between_dtc_codes(...)
ExtractHtml ==
    /\ pc = "extract_html"
    /\ LET r == extract_html_between_dtc_codes(html, target_dtc, next_dtc)
       IN  /\ dtc_html' = IF r.raised THEN dtc_html ELSE r.val
           /\ pc' = IF r.raised THEN "raised" ELSE "solution_names"
           /\ exc' = IF r.raised THEN "AttributeError" ELSE exc
    /\ UNCHANGED << pdf_document, startpage, endpage, target_dtc, next_dtc,
                    html, html_pages, spans, span_idx, names_state, solution_names,
                    blocks, block_pages, block_idx, filter_state, dtc_blocks, ret,
                    outline_vars >>

\* _solution_names_from_html up to its loop: [] for no markup, else the spans
SolutionNamesEnter ==
    /\ pc = "solution_names"
    /\ IF ~Truthy(dtc_html)
       THEN /\ solution_names' = <<>>
            /\ pc' = "get_pages_blocks"
            /\ UNCHANGED << spans, span_idx, names_state >>
       ELSE /\ spans' = find_all_spans(dtc_html.val)
            /\ span_idx' = 1
            /\ names_state' = NamesStart
            /\ pc' = "span_loop"
            /\ UNCHANGED solution_names
    /\ UNCHANGED << pdf_document, startpage, endpage, target_dtc, next_dtc, exc,
                    html, html_pages, dtc_html,
                    blocks, block_pages, block_idx, filter_state, dtc_blocks, ret,
                    outline_vars >>

\* one iteration of `for span in soup.find_all('span')`
SpanStep ==
    /\ pc = "span_loop"
    /\ span_idx <= Len(spans)
    /\ names_state' = SpanBody(names_state, spans[span_idx])
    /\ span_idx' = span_idx + 1
    /\ UNCHANGED << pdf_document, startpage, endpage, target_dtc, next_dtc, pc, exc,
                    html, html_pages, dtc_html, spans, solution_names,
                    blocks, block_pages, block_idx, filter_state, dtc_blocks, ret,
                    outline_vars >>

\* the loop is over: return extracted_text_list
SolutionNamesReturn ==
    /\ pc = "span_loop"
    /\ span_idx > Len(spans)
    /\ solution_names' = names_state.extracted_text_list
    /\ pc' = "get_pages_blocks"
    /\ UNCHANGED << pdf_document, startpage, endpage, target_dtc, next_dtc, exc,
                    html, html_pages, dtc_html, spans, span_idx, names_state,
                    blocks, block_pages, block_idx, filter_state, dtc_blocks, ret,
                    outline_vars >>

\* parse_dtc, line 229: blocks = self._get_pages_blocks(startpage, endpage)
GetPagesBlocks ==
    /\ pc = "get_pages_blocks"
    /\ LET r == get_pages_blocks(pdf_document, startpage, endpage)
       IN  /\ block_pages' = r.pages
           /\ blocks' = IF r.raised THEN blocks ELSE r.val
           /\ pc' = IF r.raised THEN "raised" ELSE "block_loop"
           /\ exc' = IF r.raised THEN "ValueError" ELSE exc
    /\ block_idx' = 1
    /\ filter_state' = FilterStart
    /\ UNCHANGED << pdf_document, startpage, endpage, target_dtc, next_dtc,
                    html, html_pages, dtc_html, spans, span_idx, names_state,
                    solution_names, dtc_blocks, ret, outline_vars >>

\* the patterns of _filter_dtc_blocks, lines 132-134
TargetPattern == handle_newlines(target_dtc)
NextPattern == IF Truthy(next_dtc) THEN handle_newlines(next_dtc.val) ELSE None

\* one iteration of `for block in blocks`; re.search raises TypeError for
\* the pattern None that an empty target label leaves
BlockStep ==
    /\ pc = "block_loop"
    /\ block_idx <= Len(blocks)
    /\ ~filter_state.broke
    /\ IF ~TargetPattern.some
       THEN /\ pc' = "raised"
            /\ exc' = "TypeError"
            /\ UNCHANGED << filter_state, block_idx >>
       ELSE /\ filter_state' = BlockBody(filter_state, blocks[block_idx],
                                         TargetPattern.val, NextPattern)
            /\ block_idx' = block_idx + 1
            /\ UNCHANGED << pc, exc >>
    /\ UNCHANGED << pdf_document, startpage, endpage, target_dtc, next_dtc,
                    html, html_pages, dtc_html, spans, span_idx, names_state,
                    solution_names, blocks, block_pages, dtc_blocks, ret, outline_vars >>

\* the loop is over or left by break: return result
FilterReturn ==
    /\ pc = "block_loop"
    /\ (block_idx > Len(blocks) \/ filter_state.broke)
    /\ dtc_blocks' = filter_state.result
    /\ pc' = "clean_solutions"
    /\ UNCHANGED << pdf_document, startpage, endpage, target_dtc, next_dtc, exc,
                    html, html_pages, dtc_html, spans, span_idx, names_state,
                    solution_names, blocks, block_pages, block_idx, filter_state, ret,
                    outline_vars >>

\* parse_dtc, lines 231-234: clean the blocks and return the dictionary
CleanAndReturn ==
    /\ pc = "clean_solutions"
    /\ ret' = Some([solutions |-> clean_solutions_from_blocks(dtc_blocks, solution_names),
                    solution_names |-> solution_names])
    /\ pc' = "returned"
    /\ UNCHANGED << pdf_document, startpage, endpage, target_dtc, next_dtc, exc,
                    html, html_pages, dtc_html, spans, span_idx, names_state,
                    solution_names, blocks, block_pages, block_idx, filter_state,
                    dtc_blocks, outline_vars >>

\* parse_dtc
Next ==
    \/ GetPagesHtml
    \/ ExtractHtml
    \/ SolutionNamesEnter
    \/ SpanStep
    \/ SolutionNamesReturn
    \/ GetPagesBlocks
    \/ BlockStep
    \/ FilterReturn
    \/ CleanAndReturn

Spec == Init /\ [][Next]_vars


\* the elements of s at the places in I, in order
RECURSIVE PickFrom(_, _, _)
PickFrom(s, I, k) ==
    IF k > Len(s) THEN <<>>
    ELSE (IF k \in I THEN <<s[k]>> ELSE <<>>) \o PickFrom(s, I, k + 1)

(***************************************************************************)
(* PdfOutlineProcessor.  PdfReader.outline is a list whose items are       *)
(* destinations (a title, a page) and lists: a list holds the children of  *)
(* the destination before it.  An item is a record: list tells which.      *)
(***************************************************************************)
\* outline.get('/Title') of an item without a title
NoTitle == "None"
Dest(title, page) == [list |-> FALSE, title |-> title, page |-> page, items |-> <<>>]
ListOf(items) == [list |-> TRUE, title |-> NoTitle, page |-> 0, items |-> items]
\* `if title`
HasTitle(title) == title # NoTitle /\ title # ""

Titles == {NoTitle, "A", "Diagnostic Trouble Codes"}
\* bound of the model: the nodes of an outline
MaxNodes == 5

\* the outlines of n nodes, in pre-order: a node is at most one level deeper
\* than the node before it; node k points at page k - 1
RECURSIVE NodesOfLen(_)
NodesOfLen(n) ==
    IF n = 0 THEN {<<>>}
    ELSE UNION { { Append(f, [title |-> t, level |-> l, page |-> n - 1]) :
                       t \in Titles,
                       l \in 1..(IF f = <<>> THEN 1 ELSE f[Len(f)].level + 1) } :
                 f \in NodesOfLen(n - 1) }

\* how many nodes after the first are below level lvl in a row: its descendants
RECURSIVE Below(_, _, _)
Below(nodes, lvl, k) ==
    IF k > Len(nodes) \/ nodes[k].level <= lvl THEN k - 2 ELSE Below(nodes, lvl, k + 1)

\* the nested lists PyPDF2 makes of the nodes at level lvl and below
RECURSIVE Nest(_, _)
Nest(nodes, lvl) ==
    IF nodes = <<>> THEN <<>>
    ELSE LET d == Below(nodes, lvl, 2)
             kids == SubSeq(nodes, 2, d + 1)
             rest == SubSeq(nodes, d + 2, Len(nodes))
         IN  <<Dest(nodes[1].title, nodes[1].page)>>
             \o (IF kids = <<>> THEN <<>> ELSE <<ListOf(Nest(kids, lvl + 1))>>)
             \o Nest(rest, lvl)

\* _build_outline_json, from `pointer` on (the while loop): a destination
\* followed by a list becomes a dictionary with sub_headers, whatever its
\* title; another destination becomes one only if it has a title
RECURSIVE build_outline_json(_, _, _)
build_outline_json(outline, pointer, header_level) ==
    IF pointer > Len(outline) THEN <<>>
    ELSE IF pointer + 1 <= Len(outline) /\ outline[pointer + 1].list
    THEN << [title        |-> outline[pointer].title,
             header_level |-> header_level + 1,
             sub_headers  |-> Some(build_outline_json(outline[pointer + 1].items, 1,
                                                      header_level + 1)),
             page_num     |-> outline[pointer].page] >>
         \o build_outline_json(outline, pointer + 2, header_level)
    ELSE (IF HasTitle(outline[pointer].title)
          THEN << [title        |-> outline[pointer].title,
                   header_level |-> header_level + 1,
                   sub_headers  |-> None,
                   page_num     |-> outline[pointer].page] >>
          ELSE <<>>)
         \o build_outline_json(outline, pointer + 1, header_level)

Max2(a, b) == IF a >= b THEN a ELSE b
\* _get_max_header_level
RECURSIVE get_max_header_level(_)
get_max_header_level(titles) ==
    IF titles = <<>> THEN 0
    ELSE LET title == Head(titles)
             own == IF Truthy(title.sub_headers)
                    THEN Max2(title.header_level, get_max_header_level(title.sub_headers.val))
                    ELSE title.header_level
         IN  Max2(own, get_max_header_level(Tail(titles)))

\* [""] * n
Blanks(n) == [k \in 1..(IF n > 0 THEN n ELSE 0) |-> ""]
\* _create_title_row: the cells H1..Hmax of the row, and page_num
create_title_row(title, max_header_level, prevLevels) ==
    [H |-> prevLevels \o <<title.title>> \o Blanks(max_header_level - Len(prevLevels) - 1),
     page_num |-> title.page_num]

\* _create_titles_dataframe: the rows of the table
RECURSIVE create_titles_rows(_, _, _)
create_titles_rows(titles, prevLevels, max_header_level) ==
    IF titles = <<>> THEN <<>>
    ELSE LET title == Head(titles)
         IN  <<create_title_row(title, max_header_level, prevLevels)>>
             \o (IF title.sub_headers.some
                 THEN create_titles_rows(title.sub_headers.val,
                                         Append(prevLevels, title.title), max_header_level)
                 ELSE <<>>)
             \o create_titles_rows(Tail(titles), prevLevels, max_header_level)

\* _create_titles_dataframe called with the titles alone: a table is its
\* columns H1..Hn (n = max_header_level) and page_num, and its rows
create_titles_dataframe(titles) ==
    LET max_header_level == get_max_header_level(titles)
    IN  [levels |-> max_header_level,
         rows   |-> create_titles_rows(titles, <<>>, max_header_level)]

\* extract_outline: the table, or None (after a print) for no outline
extract_outline(outline) ==
    IF outline # <<>>
    THEN Some(create_titles_dataframe(build_outline_json(outline, 1, 0)))
    ELSE None

DTC_SECTIONS == {"Diagnostic Trouble Codes", "Diagnostic Service Codes"}

\* drop_duplicates(subset=['H4'], keep='first')
RECURSIVE DropDuplicatesH4(_, _)
DropDuplicatesH4(rows, seen) ==
    IF rows = <<>> THEN <<>>
    ELSE IF Head(rows).H[4] \in seen THEN DropDuplicatesH4(Tail(rows), seen)
    ELSE <<Head(rows)>> \o DropDuplicatesH4(Tail(rows), seen \cup {Head(rows).H[4]})

\* create_pdf_outline after its call of extract_outline (lines 17-28):
\* subscripting None raises TypeError, a missing column H2, H4 or H5 raises
\* KeyError; shift(-1) leaves the last row without a next value
create_pdf_outline(df) ==
    IF ~df.some THEN [raised |-> TRUE, exc |-> "TypeError", val |-> None]
    ELSE IF df.val.levels < 5 THEN [raised |-> TRUE, exc |-> "KeyError", val |-> None]
    ELSE LET rows == df.val.rows
             n == Len(rows)
             with_next == [k \in 1..n |->
                              [H |-> rows[k].H, page_num |-> rows[k].page_num,
                               next_section_page_num |->
                                   IF k < n THEN Some(<<rows[k + 1].page_num>>) ELSE None]]
             dtc_mask == {k \in 1..n : rows[k].H[2] \in DTC_SECTIONS /\ rows[k].H[4] # ""}
             kept == DropDuplicatesH4(PickFrom(with_next, dtc_mask, 1), {})
         IN  [raised |-> FALSE, exc |-> "none",
              val |-> Some([k \in 1..Len(kept) |->
                               [H |-> SubSeq(kept[k].H, 1, 4) \o SubSeq(kept[k].H, 6, Len(kept[k].H)),
                                page_num |-> kept[k].page_num,
                                next_section_page_num |-> kept[k].next_section_page_num,
                                next_H4 |-> IF k < Len(kept) THEN Some(<<kept[k + 1].H[4]>>)
                                            ELSE None]])]

(***************************************************************************)
(* parse_dtc as a function of its arguments: the loops run to their end    *)
(***************************************************************************)
\* the loop of _solution_names_from_html from span k on
RECURSIVE SpanLoop(_, _, _)
SpanLoop(st, sps, k) ==
    IF k > Len(sps) THEN st ELSE SpanLoop(SpanBody(st, sps[k]), sps, k + 1)

\* _solution_names_from_html
solution_names_from_html(markup) ==
    IF ~Truthy(markup) THEN <<>>
    ELSE SpanLoop(NamesStart, find_all_spans(markup.val), 1).extracted_text_list

\* the loop of _filter_dtc_blocks from block k on, left at its end or by break
RECURSIVE BlockLoop(_, _, _, _, _)
BlockLoop(st, bs, k, target, next) ==
    IF k > Len(bs) \/ st.broke THEN st
    ELSE BlockLoop(BlockBody(st, bs[k], target, next), bs, k + 1, target, next)

\* _filter_dtc_blocks: TypeError from re.search when the pattern of the
\* target label is None and there is a block to search
filter_dtc_blocks(bs, target, next) ==
    LET tpat == handle_newlines(target)
        npat == IF Truthy(next) THEN handle_newlines(next.val) ELSE None
    IN  IF ~tpat.some
        THEN [raised |-> bs # <<>>, val |-> <<>>]
        ELSE [raised |-> FALSE, val |-> BlockLoop(FilterStart, bs, 1, tpat.val, npat).result]

\* parse_dtc on the document doc: the dictionary returned, or an exception
parse_dtc(doc, start, stop, target, next) ==
    LET pages == get_pages_html(doc, start, stop)
        region == extract_html_between_dtc_codes(pages.val, target, next)
        names == solution_names_from_html(region.val)
        blks == get_pages_blocks(doc, start, stop)
        kept == filter_dtc_blocks(blks.val, target, next)
    IN  IF pages.raised \/ region.raised \/ blks.raised \/ kept.raised
        THEN [raised |-> TRUE, val |-> None]
        ELSE [raised |-> FALSE,
              val |-> Some([solutions |-> clean_solutions_from_blocks(kept.val, names),
                            solution_names |-> names])]

(***************************************************************************)
(* Properties of parse_dtc                                                 *)
(***************************************************************************)
HasCode(label) == ReSearch(DTC_PATTERN, label).found
Matches(pat, text) == ReSearch(pat, text).found
MinOf(S) == CHOOSE m \in S : \A o \in S : m <= o
MaxOf(S) == CHOOSE m \in S : \A o \in S : o <= m
PassADone == pc \in {"get_pages_blocks", "block_loop", "clean_solutions", "returned"}
Extracted == PassADone \/ pc \in {"solution_names", "span_loop"}
PassBDone == pc \in {"clean_solutions", "returned"}
EmptyResult == [solutions |-> <<>>, solution_names |-> <<>>]

\* C1: when the target label, or a supplied next label, holds no code token,
\* parse_dtc raises no exception over the label and returns
\* {solutions: [], solution_names: []}.
C1_NoCodeLabelGivesEmptyResult ==
    (~HasCode(target_dtc) \/ (next_dtc.some /\ ~HasCode(next_dtc.val)))
        => /\ exc \notin {"AttributeError", "TypeError"}
           /\ (pc = "returned" => ret.val = EmptyResult)

IsNoiseText(t) ==
    \/ StartsWith(t, OK_PREFIX)
    \/ StartsWith(t, NOT_OK_MARK)
    \/ StartsWith(t, <<Bullet>>)
    \/ t = DIAGNOSTICS
\* C2: no returned solution starts with "OK", "NOT OK:" or the bullet, and
\* none is exactly "Diagnostics".
C2_NoReturnedSolutionIsNoise ==
    pc = "returned" =>
        \A k \in 1..Len(ret.val.solutions) : ~IsNoiseText(ret.val.solutions[k])

\* C3: a call that returns no solution names returns no solutions.
C3_NoNamesNoSolutions ==
    (pc = "returned" /\ ret.val.solution_names = <<>>) => ret.val.solutions = <<>>
\* blocks were captured, and none is returned because no name was found
C3_Witness ==
    pc = "returned" /\ ret.val.solution_names = <<>> /\ dtc_blocks # <<>>

WellFormedPair == HasCode(target_dtc) /\ Truthy(next_dtc) /\ HasCode(next_dtc.val)
TargetMatch == ReSearch(CompileText(CodeOf(target_dtc).val), html)
NextMatch == ReSearch(CompileText(CodeOf(next_dtc.val).val), html)
\* C4: for a well-formed label pair whose next token is first found at or
\* before the end of the target token's first match, there is no sub-region
\* and no solution name; a sub-region, when there is one, is the markup
\* from the end of the target match to the start of the next match, of
\* positive length.
C4_ReversedBoundsGiveNoRegion ==
    (Extracted /\ WellFormedPair /\ TargetMatch.found /\ NextMatch.found) =>
        /\ NextMatch.start <= TargetMatch.end =>
               (dtc_html = None /\ (PassADone => solution_names = <<>>))
        /\ dtc_html.some =>
               /\ NextMatch.start > TargetMatch.end
               /\ Len(dtc_html.val) = NextMatch.start - TargetMatch.end
               /\ \A k \in 1..Len(dtc_html.val) :
                      dtc_html.val[k] = html[TargetMatch.end + k]
\* the next token first occurs before the target token
C4_Witness ==
    /\ pc = "returned" /\ WellFormedPair
    /\ TargetMatch.found /\ NextMatch.found /\ NextMatch.start < TargetMatch.start
    /\ ret.val.solution_names = <<>>

\* the pages first..last, in order
PagesThrough(first, last) ==
    [k \in 1..(IF last >= first THEN last - first + 1 ELSE 0) |-> first + k - 1]
\* C5 as stated: both passes read the pages pageStart..pageEnd+2.
C5_ReadsThroughEndPlusTwo ==
    PassBDone => /\ html_pages = PagesThrough(startpage, endpage + 2)
                 /\ block_pages = html_pages
\* C5 as amended: each pass, once it has loaded its pages, has read exactly
\* the pages pageStart..pageEnd+1 in page order, and both passes read the
\* same pages.
C5_ReadsThroughEndPlusOne ==
    /\ Extracted => html_pages = PagesThrough(startpage, endpage + 1)
    /\ (pc = "block_loop" \/ PassBDone) =>
           (block_pages = PagesThrough(startpage, endpage + 1) /\ block_pages = html_pages)
C5_Witness ==
    /\ pc = "returned"
    /\ Len(html_pages) >= 2
    /\ html_pages[Len(html_pages)] = endpage + 1
    /\ block_pages = html_pages

\* what Pass B captures from the blocks bs under the claim's reading: the
\* blocks after the first target block and before the first later next block
ClaimedCapture(bs, tpat, npat) ==
    LET T == {i \in 1..Len(bs) : Matches(tpat, bs[i])}
    IN  IF T = {} THEN <<>>
        ELSE LET first == MinOf(T)
                 stops == IF npat.some
                          THEN {i \in (first + 1)..Len(bs) : Matches(npat.val, bs[i])}
                          ELSE {}
                 stop == IF stops = {} THEN Len(bs) + 1 ELSE MinOf(stops)
             IN  PickFrom(bs, (first + 1)..(stop - 1), 1)
\* and as the code captures: no block matching the target pattern is
\* captured, and such a block does not stop the capture
ActualCapture(bs, tpat, npat) ==
    LET T == {i \in 1..Len(bs) : Matches(tpat, bs[i])}
    IN  IF T = {} THEN <<>>
        ELSE LET first == MinOf(T)
                 stops == IF npat.some
                          THEN {i \in (first + 1)..Len(bs) :
                                    i \notin T /\ Matches(npat.val, bs[i])}
                          ELSE {}
                 stop == IF stops = {} THEN Len(bs) + 1 ELSE MinOf(stops)
             IN  PickFrom(bs, ((first + 1)..(stop - 1)) \ T, 1)
\* C8 as stated: the captured list is every block strictly between the first
\* target block and the first later next block, later target blocks included.
C8_CaptureKeepsLaterTargetBlocks ==
    (PassBDone /\ TargetPattern.some) =>
        dtc_blocks = ClaimedCapture(blocks, TargetPattern.val, NextPattern)
\* C8 as amended: after every iteration the captured list is the blocks read
\* so far that lie after the first target block and before the first later
\* block matching the next pattern and not the target pattern, without the
\* blocks that match the target pattern; once the loop has stopped at a next
\* block nothing is captured any more.
C8_CaptureSkipsTargetBlocks ==
    /\ (pc = "block_loop" /\ TargetPattern.some) =>
           filter_state.result =
               ActualCapture(SubSeq(blocks, 1, block_idx - 1), TargetPattern.val, NextPattern)
    /\ (PassBDone /\ TargetPattern.some) =>
           dtc_blocks = ActualCapture(blocks, TargetPattern.val, NextPattern)
    /\ (pc = "block_loop" /\ filter_state.broke) =>
           /\ ~filter_state.matching_started
           /\ Matches(NextPattern.val, blocks[block_idx - 1])
\* with a next label given, a block inside the capture matches the target
\* pattern again and is left out of the captured blocks
C8_Witness ==
    /\ PassBDone /\ TargetPattern.some /\ NextPattern.some /\ dtc_blocks # <<>>
    /\ Len(dtc_blocks) < Len(ClaimedCapture(blocks, TargetPattern.val, NextPattern))

IsBold(sp) == sp.parent = "b"
IsBoldBullet(sp) == sp.text = <<Bullet>> /\ IsBold(sp)
\* the last bold bullet before place c (0 for none)
LastBullet(sps, c) ==
    LET at == {b \in 1..(c - 1) : IsBoldBullet(sps[b])}
    IN  IF at = {} THEN 0 ELSE MaxOf(at)
\* the streak the bullet at b started is still open just before place c
StreakOpen(sps, c) ==
    /\ LastBullet(sps, c) # 0
    /\ \A j \in (LastBullet(sps, c) + 1)..(c - 1) : IsBold(sps[j])
\* the texts of the spans after the last bullet and before c, a space after each
RECURSIVE BufferOf(_, _, _)
BufferOf(sps, from, c) ==
    IF from >= c THEN <<>> ELSE sps[from].text \o <<" ">> \o BufferOf(sps, from + 1, c)
NameClosedAt(sps, c) ==
    LET buf == BufferOf(sps, LastBullet(sps, c) + 1, c)
    IN  Strip(SubSeq(buf, 2, Len(buf)))
\* the spans that close a streak: not bold, with the streak open before them
Closers(sps) == {c \in 1..Len(sps) : ~IsBold(sps[c]) /\ StreakOpen(sps, c)}
ExpectedNames(sps) ==
    PickFrom([c \in 1..Len(sps) |-> NameClosedAt(sps, c)], Closers(sps), 1)
\* C9: after every span the loop is InStreak exactly when a bold bullet has
\* been read and only bold spans since; the buffer then holds the texts of
\* the spans since that bullet; the names so far are those of the non-bold
\* spans that closed an open streak, in document order, each the buffer
\* without its first character, trimmed; an open streak at the end adds no
\* name; the names are never more than the bold bullets read.
C9_NamesFollowStreaks ==
    /\ pc = "span_loop" =>
           LET done == SubSeq(spans, 1, span_idx - 1)
               n == Len(done) + 1
           IN  /\ names_state.in_streak = StreakOpen(done, n)
               /\ names_state.in_streak =>
                      names_state.current_text = BufferOf(done, LastBullet(done, n) + 1, n)
               /\ names_state.extracted_text_list = ExpectedNames(done)
               /\ Len(names_state.extracted_text_list)
                      <= Cardinality({b \in 1..Len(done) : IsBoldBullet(done[b])})
    /\ PassADone => solution_names = ExpectedNames(spans)
\* a name was emitted, a bullet reset an open streak, and the last streak
\* was still open at the end of the region
C9_Witness ==
    /\ PassADone /\ solution_names # <<>> /\ names_state.in_streak
    /\ \E b \in 2..Len(spans) : IsBoldBullet(spans[b]) /\ StreakOpen(spans, b)

\* C10: when the target marker, or the marker of a supplied next label, is
\* absent from the pages read, Pass A gives no name and Pass B captures no
\* block.
C10_MissingBoundaryGivesEmptyPasses ==
    (pc = "returned" /\ WellFormedPair) =>
        /\ (~TargetMatch.found \/ ~NextMatch.found) => ret.val.solution_names = <<>>
        /\ (\/ \A i \in 1..Len(blocks) : ~Matches(TargetPattern.val, blocks[i])
            \/ \A i \in 1..Len(blocks) : ~Matches(NextPattern.val, blocks[i]))
               => dtc_blocks = <<>>

\* the labels that carry the code token of label l
SameCode(l) == {o \in TargetLabels : HasCode(o) /\ CodeOf(o).val = CodeOf(l).val}
\* C11: a call that returns gives the result that every call on the same
\* pages gives whose target label carries the same code token under another
\* description: both its solution_names and its solutions are the same.
C11_ResultDependsOnCodeOnly ==
    (pc = "returned" /\ HasCode(target_dtc)) =>
        \A other \in SameCode(target_dtc) :
            parse_dtc(pdf_document, startpage, endpage, other, next_dtc).val = ret


(***************************************************************************)
(* create_pdf_outline: the specification of the outline side               *)
(***************************************************************************)
\* the values the variables of parse_dtc keep while the outline is read
DtcIdle ==
    /\ pdf_document = <<>> /\ startpage = 0 /\ endpage = 0
    /\ target_dtc = <<>> /\ next_dtc = None
    /\ html = <<>> /\ html_pages = <<>> /\ dtc_html = None
    /\ spans = <<>> /\ span_idx = 0 /\ names_state = NamesStart /\ solution_names = <<>>
    /\ blocks = <<>> /\ block_pages = <<>> /\ block_idx = 0
    /\ filter_state = FilterStart /\ dtc_blocks = <<>>
    /\ ret = None

InitOutline ==
    /\ outline_nodes \in UNION {NodesOfLen(n) : n \in 0..MaxNodes}
    /\ outlines = Nest(outline_nodes, 1)
    /\ titles_df = None
    /\ sections = None
    /\ pc = "extract_outline"
    /\ exc = "none"
    /\ DtcIdle

\* create_pdf_outline, line 15: titles_df = pdfprocessor.extract_outline()
ExtractOutline ==
    /\ pc = "extract_outline"
    /\ titles_df' = extract_outline(outlines)
    /\ pc' = "enrich"
    /\ UNCHANGED << dtc_vars_but_pc, outline_nodes, outlines, sections, exc >>

\* create_pdf_outline, lines 17-28
EnrichOutline ==
    /\ pc = "enrich"
    /\ LET r == create_pdf_outline(titles_df)
       IN  /\ sections' = r.val
           /\ exc' = r.exc
           /\ pc' = IF r.raised THEN "raised" ELSE "outline_done"
    /\ UNCHANGED << dtc_vars_but_pc, outline_nodes, outlines, titles_df >>

NextOutline ==
    \/ ExtractOutline
    \/ EnrichOutline

SpecOutline == InitOutline /\ [][NextOutline]_vars

(***************************************************************************)
(* Properties of the outline                                               *)
(***************************************************************************)
\* the title of the ancestor at level m of node k: the last node before k
\* at that level
AncestorTitle(nodes, k, m) ==
    nodes[MaxOf({j \in 1..(k - 1) : nodes[j].level = m})].title
\* the row the claim gives node k in a table of `levels` heading columns
ClaimedRow(nodes, k, levels) ==
    [H |-> [m \in 1..levels |->
               IF m < nodes[k].level THEN AncestorTitle(nodes, k, m)
               ELSE IF m = nodes[k].level THEN nodes[k].title
               ELSE ""],
     page_num |-> nodes[k].page]
\* C6: the table has a row for exactly the nodes that have a title, in
\* pre-order, each with its ancestors' titles, its own title and blanks.
C6_RowsAreTheTitledNodes ==
    (pc = "enrich" /\ titles_df.some) =>
        titles_df.val.rows =
            PickFrom([k \in 1..Len(outline_nodes) |->
                         ClaimedRow(outline_nodes, k, titles_df.val.levels)],
                     {k \in 1..Len(outline_nodes) : HasTitle(outline_nodes[k].title)}, 1)

\* C7: a document with no outline gives a table of zero rows, and
\* create_pdf_outline goes through with zero sections.
C7_NoOutlineGivesEmptyTable ==
    outlines = <<>> =>
        /\ pc = "enrich" => (titles_df.some /\ titles_df.val.rows = <<>>)
        /\ pc # "raised"
        /\ pc = "outline_done" => sections = Some(<<>>)

=============================================================================
